---- MODULE Spec2Model ----
(***************************************************************************)
(* A model of kafka-rust's wire codec (src/src/codecs.rs) and of its       *)
(* chunked snappy reader (src/src/compression/snappy.rs).                  *)
(*                                                                         *)
(* Bytes are the integers 0..255, byte strings are sequences of bytes.     *)
(* Spec      : a SnappyReader over one input: new, read, read_to_end.      *)
(* SpecCodec : ToByte / FromByte: encode, encode_nolen, decode_new.        *)
(***************************************************************************)
EXTENDS Integers, Sequences, FiniteSets, TLC

VARIABLES
    input,      \* the caller's byte buffer handed to SnappyReader::new
    status,     \* "init" | "open" | "failed" | "crashed" (a panic unwound)
    rd,         \* the SnappyReader's three fields (NoReader until constructed)
    out,        \* the caller's accumulator: bytes returned by read, appended by read_to_end
    last,       \* the last call: its operation, its argument, its result
    hist,       \* what has happened so far in this behaviour (history of the calls)
    wbuf,       \* codec: the writer's bytes
    encoded,    \* codec: the values encoded so far (their index in CodecValues), each with the offset where it ends
    rpos,       \* codec: the reader's position in wbuf
    decoded,    \* codec: the results of the decode_new calls so far
    clast       \* codec: the last codec call: its operation, its value's index, its result

vars == <<input, status, rd, out, last, hist, wbuf, encoded, rpos, decoded, clast>>
readerVars == <<input, status, rd, out, last, hist>>
codecVars == <<wbuf, encoded, rpos, decoded, clast>>

----------------------------------------------------------------------------
(* Bounds of the model *)

\* chunks (well-formed or malformed pieces) in a generated stream
MaxChunks == 2
\* largest destination buffer handed to read
MaxBuf == 2
\* read is not called any more once the accumulator holds this many bytes
MaxOut == 7
\* values encoded back to back into one writer
MaxVals == 2
\* encode is not called any more once the writer holds this many bytes
MaxWritten == 40

----------------------------------------------------------------------------
(* Byte strings *)

Take(s, k) == SubSeq(s, 1, k)
Drop(s, k) == SubSeq(s, k + 1, Len(s))
Min(a, b) == IF a < b THEN a ELSE b

RECURSIVE Concat(_)
Concat(ss) == IF ss = <<>> THEN <<>> ELSE Head(ss) \o Concat(Tail(ss))

Prefixes(s) == { Take(s, k) : k \in 0..Len(s) }

\* mutant of ReadI32: the four bytes read as little-endian
ReadI32_LittleEndian(s) ==
    (IF s[4] >= 128 THEN s[4] - 256 ELSE s[4]) * 16777216
        + s[3] * 65536 + s[2] * 256 + s[1]

\* BigEndian::read_i32 on the first four bytes of s (two's complement)
ReadI32(s) ==
    (IF s[1] >= 128 THEN s[1] - 256 ELSE s[1]) * 16777216
        + s[2] * 65536 + s[3] * 256 + s[4]

\* write_i32::<BigEndian>: the four bytes of a 32-bit signed integer
WriteI32(v) ==
    LET u == IF v < 0 THEN v + 2147483647 + 1 ELSE v
        top == (u \div 16777216) + (IF v < 0 THEN 128 ELSE 0)
    IN  << top, (u \div 65536) % 256, (u \div 256) % 256, u % 256 >>

----------------------------------------------------------------------------
(* The block compression primitive: rsnappy::decompress on one block.      *)
(* The snappy block format: a varint preamble giving the uncompressed      *)
(* length, then elements, each a literal (tag % 4 = 0) or a copy of bytes  *)
(* already produced.  Streams of the model use one-byte preambles and      *)
(* literals shorter than 61 bytes.                                         *)

\* copy len bytes starting offset bytes back from the end of produced
RECURSIVE CopyBack(_, _, _)
CopyBack(produced, offset, len) ==
    IF len = 0 THEN produced
    ELSE CopyBack(Append(produced, produced[Len(produced) - offset + 1]), offset, len - 1)

\* [ok, out]: out is the whole output on success, what was produced before the
\* failure was found otherwise
RECURSIVE SnappyElements(_, _, _)
SnappyElements(src, produced, want) ==
    IF src = <<>> THEN [ok |-> Len(produced) = want, out |-> produced]
    ELSE LET tag == src[1]
             kind == tag % 4
         IN  IF kind = 0
             THEN LET len == (tag \div 4) + 1
                  IN  IF len > 60 \/ Len(src) - 1 < len \/ Len(produced) + len > want
                      THEN [ok |-> FALSE, out |-> produced]
                      ELSE SnappyElements(Drop(src, 1 + len),
                                          produced \o SubSeq(src, 2, 1 + len), want)
             ELSE LET nOff == IF kind = 1 THEN 1 ELSE IF kind = 2 THEN 2 ELSE 4
                      len == IF kind = 1 THEN 4 + ((tag \div 4) % 8) ELSE (tag \div 4) + 1
                  IN  IF Len(src) - 1 < nOff
                      THEN [ok |-> FALSE, out |-> produced]
                      ELSE LET high == \E i \in 3..nOff : src[1 + i] # 0
                               offset == IF kind = 1 THEN (tag \div 32) * 256 + src[2]
                                         ELSE src[2] + 256 * src[3]
                           IN  IF high \/ offset = 0 \/ offset > Len(produced)
                                    \/ Len(produced) + len > want
                               THEN [ok |-> FALSE, out |-> produced]
                               ELSE SnappyElements(Drop(src, 1 + nOff),
                                                   CopyBack(produced, offset, len), want)

SnappyDecode(src) ==
    IF src = <<>> \/ src[1] >= 128 THEN [ok |-> FALSE, out |-> <<>>]
    ELSE SnappyElements(Tail(src), <<>>, src[1])

\* uncompress_into(src, dst): the outcomes [res, dst].  On success dst has the
\* block's bytes appended; on failure dst's contents are not guaranteed: it may
\* have received any part of what was produced before the failure.
UncompressInto(src, dst) ==
    LET d == SnappyDecode(src)
    IN  IF d.ok THEN { [res |-> "Ok", dst |-> dst \o d.out] }
        ELSE { [res |-> "InvalidInputSnappy", dst |-> dst \o p] : p \in Prefixes(d.out) }

----------------------------------------------------------------------------
(* The stream header *)

MAGIC == << 130, 83, 78, 65, 80, 80, 89, 0 >>

\* mutant of ValidateStream: the length of the whole header is checked first
ValidateStream_LengthFirst(stream) ==
    IF Len(stream) < 16 THEN [res |-> "UnexpectedEOF", rest |-> <<>>]
    ELSE IF Take(stream, Len(MAGIC)) # MAGIC \/ ReadI32(Drop(stream, 8)) # 1
            \/ ReadI32(Drop(stream, 12)) # 1
    THEN [res |-> "InvalidInputSnappy", rest |-> <<>>]
    ELSE [res |-> "Ok", rest |-> Drop(stream, 16)]

\* validate_stream: [res, rest]
ValidateStream(stream) ==
    IF Len(stream) < Len(MAGIC) THEN [res |-> "UnexpectedEOF", rest |-> <<>>]
    ELSE IF Take(stream, Len(MAGIC)) # MAGIC THEN [res |-> "InvalidInputSnappy", rest |-> <<>>]
    ELSE LET s1 == Drop(stream, Len(MAGIC))
         IN  IF Len(s1) < 4 THEN [res |-> "UnexpectedEOF", rest |-> <<>>]
             ELSE IF ReadI32(s1) # 1 THEN [res |-> "InvalidInputSnappy", rest |-> <<>>]
             ELSE LET s2 == Drop(s1, 4)
                  IN  IF Len(s2) < 4 THEN [res |-> "UnexpectedEOF", rest |-> <<>>]
                      ELSE IF ReadI32(s2) # 1
                           THEN [res |-> "InvalidInputSnappy", rest |-> <<>>]
                      ELSE [res |-> "Ok", rest |-> Drop(s2, 4)]

----------------------------------------------------------------------------
(* SnappyReader *)

NoReader == [compressed_data |-> <<>>, uncompressed_pos |-> 0, uncompressed_chunk |-> <<>>]

\* SnappyReader::new keeping the whole stream, header included, as the view
New_KeepsHeader(stream) ==
    LET v == ValidateStream(stream)
    IN  IF v.res # "Ok" THEN [res |-> v.res, rd |-> NoReader]
        ELSE [res |-> "Ok",
              rd |-> [compressed_data |-> stream,
                      uncompressed_pos |-> 0,
                      uncompressed_chunk |-> <<>>]]

\* SnappyReader::new: [res, rd]
New(stream) ==
    LET v == ValidateStream(stream)
    IN  IF v.res # "Ok" THEN [res |-> v.res, rd |-> NoReader]
        ELSE [res |-> "Ok",
              rd |-> [compressed_data |-> v.rest,
                      uncompressed_pos |-> 0,
                      uncompressed_chunk |-> <<>>]]

\* read_uncompressed advancing the cursor by the size of the caller's buffer
\* instead of the count copied
ReadUncompressed_AdvancesByRequest(r, n) ==
    IF r.uncompressed_pos > Len(r.uncompressed_chunk)
    THEN [res |-> "panic", n |-> 0, data |-> <<>>, rd |-> r]
    ELSE LET k == Min(n, Len(r.uncompressed_chunk) - r.uncompressed_pos)
         IN  [res |-> "Ok", n |-> k,
              data |-> SubSeq(r.uncompressed_chunk, r.uncompressed_pos + 1,
                              r.uncompressed_pos + k),
              rd |-> [r EXCEPT !.uncompressed_pos = @ + n]]

\* read_uncompressed with a destination buffer of n bytes: [res, n, data, rd]
ReadUncompressed(r, n) ==
    IF r.uncompressed_pos > Len(r.uncompressed_chunk)
    THEN [res |-> "panic", n |-> 0, data |-> <<>>, rd |-> r]
    ELSE LET k == Min(n, Len(r.uncompressed_chunk) - r.uncompressed_pos)
         IN  [res |-> "Ok", n |-> k,
              data |-> SubSeq(r.uncompressed_chunk, r.uncompressed_pos + 1,
                              r.uncompressed_pos + k),
              rd |-> [r EXCEPT !.uncompressed_pos = @ + k]]

\* next_chunk once the compressed view is known not to be empty: the outcomes
\* [res, more, rd]
LoadChunk(r) ==
    LET r1 == [r EXCEPT !.uncompressed_pos = 0]
    IN  IF Len(r1.compressed_data) < 4
        THEN { [res |-> "UnexpectedEOF", more |-> FALSE, rd |-> r1] }
        ELSE LET chunk_size == ReadI32(r1.compressed_data)
                 r2 == [r1 EXCEPT !.compressed_data = Drop(@, 4)]
             IN  IF chunk_size <= 0
                 THEN { [res |-> "InvalidInputSnappy", more |-> FALSE, rd |-> r2] }
                 ELSE LET r3 == [r2 EXCEPT !.uncompressed_chunk = <<>>]
                      IN  IF chunk_size > Len(r3.compressed_data)
                          THEN { [res |-> "panic", more |-> FALSE, rd |-> r3] }
                          ELSE { IF u.res = "Ok"
                                 THEN [res |-> "Ok", more |-> TRUE,
                                       rd |-> [r3 EXCEPT
                                           !.uncompressed_chunk = u.dst,
                                           !.compressed_data = Drop(@, chunk_size)]]
                                 ELSE [res |-> u.res, more |-> FALSE,
                                       rd |-> [r3 EXCEPT !.uncompressed_chunk = u.dst]]
                                 : u \in UncompressInto(
                                           Take(r3.compressed_data, chunk_size), <<>>) }

\* mutant of NextChunk: the cursor is reset before the view is tested for emptiness
NextChunk_ResetsFirst(r) ==
    IF r.compressed_data = <<>>
    THEN { [res |-> "Ok", more |-> FALSE, rd |-> [r EXCEPT !.uncompressed_pos = 0]] }
    ELSE LoadChunk(r)

\* next_chunk: the outcomes [res, more, rd]
NextChunk(r) ==
    IF r.compressed_data = <<>> THEN { [res |-> "Ok", more |-> FALSE, rd |-> r] }
    ELSE LoadChunk(r)

\* _read loading the next chunk whenever the buffer holds fewer bytes than the
\* caller asked for
ReadOutcomes_LoadsWhenShort(r, n) ==
    IF /\ r.uncompressed_pos < Len(r.uncompressed_chunk)
       /\ n <= Len(r.uncompressed_chunk) - r.uncompressed_pos
    THEN { ReadUncompressed(r, n) }
    ELSE { IF c.res # "Ok" THEN [res |-> c.res, n |-> 0, data |-> <<>>, rd |-> c.rd]
           ELSE IF c.more THEN ReadUncompressed(c.rd, n)
           ELSE [res |-> "Ok", n |-> 0, data |-> <<>>, rd |-> c.rd]
           : c \in NextChunk(r) }

\* _read with a destination buffer of n bytes: the outcomes [res, n, data, rd]
ReadOutcomes(r, n) ==
    IF r.uncompressed_pos < Len(r.uncompressed_chunk)
    THEN { ReadUncompressed(r, n) }
    ELSE { IF c.res # "Ok" THEN [res |-> c.res, n |-> 0, data |-> <<>>, rd |-> c.rd]
           ELSE IF c.more THEN ReadUncompressed(c.rd, n)
           ELSE [res |-> "Ok", n |-> 0, data |-> <<>>, rd |-> c.rd]
           : c \in NextChunk(r) }

\* the while loop of _read_to_end: the outcomes [res, rd, buf]
RECURSIVE ReadToEndLoop(_, _)
ReadToEndLoop(r, buf) ==
    IF r.compressed_data = <<>> THEN { [res |-> "Ok", rd |-> r, buf |-> buf] }
    ELSE IF Len(r.compressed_data) < 4
    THEN { [res |-> "UnexpectedEOF", rd |-> r, buf |-> buf] }
    ELSE LET chunk_size == ReadI32(r.compressed_data)
             r2 == [r EXCEPT !.compressed_data = Drop(@, 4)]
         IN  IF chunk_size <= 0
             THEN { [res |-> "InvalidInputSnappy", rd |-> r2, buf |-> buf] }
             ELSE IF chunk_size > Len(r2.compressed_data)
             THEN { [res |-> "panic", rd |-> r2, buf |-> buf] }
             ELSE UNION { IF u.res = "Ok"
                          THEN ReadToEndLoop(
                                  [r2 EXCEPT !.compressed_data = Drop(@, chunk_size)], u.dst)
                          ELSE { [res |-> u.res, rd |-> r2, buf |-> u.dst] }
                          : u \in UncompressInto(Take(r2.compressed_data, chunk_size), buf) }

\* mutant of ReadToEndOutcomes: the whole decompressed buffer is appended, not only
\* its unconsumed bytes
ReadToEndOutcomes_WholeChunk(r, buf) ==
    LET init_len == Len(buf)
        hasRest == r.uncompressed_pos < Len(r.uncompressed_chunk)
        buf1 == IF hasRest THEN buf \o r.uncompressed_chunk ELSE buf
        r1 == IF hasRest
              THEN [r EXCEPT !.uncompressed_pos = Len(r.uncompressed_chunk)]
              ELSE r
    IN  { [res |-> o.res,
           n |-> IF o.res = "Ok" THEN Len(o.buf) - init_len ELSE 0,
           rd |-> o.rd, buf |-> o.buf] : o \in ReadToEndLoop(r1, buf1) }

\* _read_to_end: the outcomes [res, n, rd, buf]
ReadToEndOutcomes(r, buf) ==
    LET init_len == Len(buf)
        hasRest == r.uncompressed_pos < Len(r.uncompressed_chunk)
        buf1 == IF hasRest
                THEN buf \o Drop(r.uncompressed_chunk, r.uncompressed_pos)
                ELSE buf
        r1 == IF hasRest
              THEN [r EXCEPT !.uncompressed_pos = Len(r.uncompressed_chunk)]
              ELSE r
    IN  { [res |-> o.res,
           n |-> IF o.res = "Ok" THEN Len(o.buf) - init_len ELSE 0,
           rd |-> o.rd, buf |-> o.buf] : o \in ReadToEndLoop(r1, buf1) }

----------------------------------------------------------------------------
(* The codec: ToByte and FromByte.                                         *)
(* A type is a path of category names: <<"i8">>, <<"i16">>, <<"i32">>,     *)
(* <<"i64">>, <<"str">> (String), <<"bytes">> (Vec<u8>) and, for Vec<V>,   *)
(* <<"vec">> \o V.  A value of an integer type is an integer (an i64 is    *)
(* the pair <<high, low>> of its two 32-bit halves, each read as signed),  *)
(* a string or a byte sequence is its bytes, a Vec<V> is the sequence of   *)
(* its elements.  The writer is an in-memory byte vector, the reader a     *)
(* cursor over bytes: neither has I/O failures of its own other than the   *)
(* reader's end of input.                                                  *)

I16_MAX == 32767
I32_MAX == 2147483647

\* usize::to_i16 and usize::to_i32 (num::ToPrimitive): -1 stands for None
ToI16(n) == IF n <= I16_MAX THEN n ELSE -1
ToI32(n) == IF n <= I32_MAX THEN n ELSE -1

WriteI8(v) == << v % 256 >>
\* mutant of WriteI16: the two bytes in little-endian order
WriteI16_LittleEndian(v) == << v % 256, (v % 65536) \div 256 >>
\* write_i16::<BigEndian>
WriteI16(v) == << (v % 65536) \div 256, v % 256 >>
WriteI64(v) == WriteI32(v[1]) \o WriteI32(v[2])

ReadI8(s) == IF s[1] >= 128 THEN s[1] - 256 ELSE s[1]
ReadI16(s) == (IF s[1] >= 128 THEN s[1] - 256 ELSE s[1]) * 256 + s[2]
ReadI64(s) == << ReadI32(s), ReadI32(Drop(s, 4)) >>

Width(T) == CASE T = <<"i8">> -> 1 [] T = <<"i16">> -> 2
              [] T = <<"i32">> -> 4 [] T = <<"i64">> -> 8

\* impl ToByte for i8, i16, i32, i64: [res, buf]
EncodeInt(T, v, buf) ==
    [res |-> "Ok",
     buf |-> buf \o (CASE T = <<"i8">> -> WriteI8(v) [] T = <<"i16">> -> WriteI16(v)
                       [] T = <<"i32">> -> WriteI32(v) [] T = <<"i64">> -> WriteI64(v))]

\* mutant of EncodeString: the length is written before it is checked
EncodeString_WritesFirst(v, buf) ==
    LET l == ToI16(Len(v))
    IN  IF l = -1 THEN [res |-> "CodecError", buf |-> buf \o WriteI16(Len(v))]
        ELSE [res |-> "Ok", buf |-> (buf \o WriteI16(l)) \o v]

\* impl ToByte for String: [res, buf]
EncodeString(v, buf) ==
    LET l == ToI16(Len(v))
    IN  IF l = -1 THEN [res |-> "CodecError", buf |-> buf]
        ELSE [res |-> "Ok", buf |-> (buf \o WriteI16(l)) \o v]

\* impl ToByte for Vec<u8>: [res, buf]
EncodeBytes(v, buf) ==
    LET l == ToI32(Len(v))
    IN  IF l = -1 THEN [res |-> "CodecError", buf |-> buf]
        ELSE [res |-> "Ok", buf |-> (buf \o WriteI32(l)) \o v]

RECURSIVE Encode(_, _, _)
\* for e in self { try!(e.encode(buffer)); }: [res, buf]
RECURSIVE EncodeElems(_, _, _)
EncodeElems(E, vs, buf) ==
    IF vs = <<>> THEN [res |-> "Ok", buf |-> buf]
    ELSE LET r == Encode(E, Head(vs), buf)
         IN  IF r.res # "Ok" THEN r ELSE EncodeElems(E, Tail(vs), r.buf)

\* impl ToByte for Vec<V>: [res, buf]
EncodeVec(E, v, buf) ==
    LET l == ToI32(Len(v))
    IN  IF l = -1 THEN [res |-> "CodecError", buf |-> buf]
        ELSE EncodeElems(E, v, buf \o WriteI32(l))

\* ToByte::encode, by the value's type: [res, buf]
Encode(T, v, buf) ==
    CASE Head(T) = "str" -> EncodeString(v, buf)
      [] Head(T) = "bytes" -> EncodeBytes(v, buf)
      [] Head(T) = "vec" -> EncodeVec(Tail(T), v, buf)
      [] OTHER -> EncodeInt(T, v, buf)

\* ToByte::encode_nolen: Vec<V> and Vec<u8> override it, every other type has the
\* trait's default, which is encode
EncodeNolen(T, v, buf) ==
    CASE Head(T) = "vec" -> EncodeElems(Tail(T), v, buf)
      [] Head(T) = "bytes" -> [res |-> "Ok", buf |-> buf \o v]
      [] OTHER -> Encode(T, v, buf)

\* Default::default()
Default(T) ==
    CASE Head(T) \in {"str", "bytes", "vec"} -> <<>>
      [] T = <<"i64">> -> <<0, 0>>
      [] OTHER -> 0

\* String::from_utf8 accepts the bytes (the model's strings are ASCII)
ValidUtf8(s) == \A i \in 1..Len(s) : s[i] < 128

\* impl FromByte for i8, i16, i32, i64 on the bytes from pos on: [res, val, pos].
\* A read past the end is an I/O error, and has consumed what was left.
DecodeInt(T, self, bytes, pos) ==
    IF Len(bytes) - pos < Width(T) THEN [res |-> "Io", val |-> self, pos |-> Len(bytes)]
    ELSE LET s == SubSeq(bytes, pos + 1, pos + Width(T))
         IN  [res |-> "Ok",
              val |-> CASE T = <<"i8">> -> ReadI8(s) [] T = <<"i16">> -> ReadI16(s)
                        [] T = <<"i32">> -> ReadI32(s) [] T = <<"i64">> -> ReadI64(s),
              pos |-> pos + Width(T)]

\* buffer.take(limit) read to its end, limit < 0 standing for a limit that
\* `length as u64` made larger than any input: the bytes read
TakeAll(bytes, pos, limit) ==
    IF limit < 0 \/ limit >= Len(bytes) - pos
    THEN Drop(bytes, pos)
    ELSE SubSeq(bytes, pos + 1, pos + limit)

\* impl FromByte for String: [res, val, pos]
DecodeString(self, bytes, pos) ==
    LET h == DecodeInt(<<"i16">>, 0, bytes, pos)
    IN  IF h.res # "Ok" THEN [res |-> h.res, val |-> self, pos |-> h.pos]
        ELSE LET length == h.val
                 got == TakeAll(bytes, h.pos, length)
                 val == IF ValidUtf8(got) THEN self \o got ELSE self
             IN  IF length < 0 \/ Len(val) # length
                 THEN [res |-> "UnexpectedEOF", val |-> val, pos |-> h.pos + Len(got)]
                 ELSE [res |-> "Ok", val |-> val, pos |-> h.pos + Len(got)]

\* Vec<u8>::decode without its test of the declared length: take(length as u64)
\* of a negative length reads to the end, and fewer than length as usize
DecodeBytes_NoShortCircuit(self, bytes, pos) ==
    LET h == DecodeInt(<<"i32">>, 0, bytes, pos)
    IN  IF h.res # "Ok" THEN [res |-> h.res, val |-> self, pos |-> h.pos]
        ELSE LET length == h.val
                 got == TakeAll(bytes, h.pos, length)
             IN  [res |-> IF length < 0 \/ Len(got) < length THEN "UnexpectedEOF" ELSE "Ok",
                  val |-> self \o got, pos |-> h.pos + Len(got)]

\* impl FromByte for Vec<u8>: [res, val, pos]
DecodeBytes(self, bytes, pos) ==
    LET h == DecodeInt(<<"i32">>, 0, bytes, pos)
    IN  IF h.res # "Ok" THEN [res |-> h.res, val |-> self, pos |-> h.pos]
        ELSE LET length == h.val
             IN  IF length <= 0 THEN [res |-> "Ok", val |-> self, pos |-> h.pos]
                 ELSE LET got == TakeAll(bytes, h.pos, length)
                      IN  [res |-> IF Len(got) < length THEN "UnexpectedEOF" ELSE "Ok",
                           val |-> self \o got, pos |-> h.pos + Len(got)]

RECURSIVE Decode(_, _, _, _)
\* for _ in 0..length { e = Default::default(); try!(e.decode(buffer)); self.push(e); }
RECURSIVE DecodeElems(_, _, _, _, _)
DecodeElems(E, count, self, bytes, pos) ==
    IF count <= 0 THEN [res |-> "Ok", val |-> self, pos |-> pos]
    ELSE LET r == Decode(E, Default(E), bytes, pos)
         IN  IF r.res # "Ok" THEN [res |-> r.res, val |-> self, pos |-> r.pos]
             ELSE DecodeElems(E, count - 1, Append(self, r.val), bytes, r.pos)

\* impl FromByte for Vec<V>: [res, val, pos]
DecodeVec(E, self, bytes, pos) ==
    LET h == DecodeInt(<<"i32">>, 0, bytes, pos)
    IN  IF h.res # "Ok" THEN [res |-> h.res, val |-> self, pos |-> h.pos]
        ELSE DecodeElems(E, h.val, self, bytes, h.pos)

\* FromByte::decode into self, by the target's type: [res, val, pos]
Decode(T, self, bytes, pos) ==
    CASE Head(T) = "str" -> DecodeString(self, bytes, pos)
      [] Head(T) = "bytes" -> DecodeBytes(self, bytes, pos)
      [] Head(T) = "vec" -> DecodeVec(Tail(T), self, bytes, pos)
      [] OTHER -> DecodeInt(T, self, bytes, pos)

\* FromByte::decode_new: decode into a default value
DecodeNew(T, bytes, pos) == Decode(T, Default(T), bytes, pos)

----------------------------------------------------------------------------
(* The inputs of the model *)

ValidHeader == MAGIC \o WriteI32(1) \o WriteI32(1)

\* one chunk of the framing: its length prefix, then its payload
Chunk(payload) == WriteI32(Len(payload)) \o payload

\* payloads that decompress: to nothing, to "A", to "BC", and to "DDDDD" (a literal
\* and a copy)
GoodPayloads == { <<0>>, <<1, 0, 65>>, <<2, 4, 66, 67>>, <<5, 0, 68, 1, 1>> }

\* payloads that do not: a literal cut short, with and without bytes produced
\* before it, and a copy that reaches before the start of the output
BadPayloads == { <<1, 0>>, <<3, 0, 71, 0>>, <<2, 42, 84, 104>> }

\* the pieces streams are made of: well-formed chunks, chunks whose payload does
\* not decompress, a zero and a negative length prefix, a prefix cut short, and a
\* prefix that declares more bytes than follow it
Pieces ==
    { Chunk(p) : p \in GoodPayloads \cup BadPayloads }
        \cup { WriteI32(0), WriteI32(-1), <<0, 0>>, WriteI32(5) \o <<1, 0>> }

Bodies == { Concat(ps) : ps \in UNION { [1..k -> Pieces] : k \in 0..MaxChunks } }

HeaderProbe == ValidHeader \o <<86, 0>>

\* the probe with one byte of its header replaced, cut to every length
HeaderInputs ==
    { Take([HeaderProbe EXCEPT ![i] = b], l) :
        i \in 1..Len(ValidHeader), b \in {0, 1, MAGIC[1]}, l \in 0..Len(HeaderProbe) }

Inputs == { ValidHeader \o b : b \in Bodies } \cup HeaderInputs

----------------------------------------------------------------------------
(* The reader's specification *)

Idle == [op |-> "none", arg |-> 0, res |-> "Ok", n |-> 0, before |-> 0]
NoHist == [emptyBuf |-> FALSE, zeros |-> 0, rte |-> 0, errs |-> FALSE]
Sat(k) == Min(k, 2)

CodecIdle ==
    /\ wbuf = <<>>
    /\ encoded = <<>>
    /\ rpos = 0
    /\ decoded = <<>>
    /\ clast = [op |-> "none", i |-> 0, res |-> "Ok", before |-> 0]

Init ==
    /\ input \in Inputs
    /\ status = "init"
    /\ rd = NoReader
    /\ out = <<>>
    /\ last = Idle
    /\ hist = NoHist
    /\ CodecIdle

\* SnappyReader::new(input)
DoNew ==
    /\ status = "init"
    /\ LET o == New(input)
       IN  /\ status' = IF o.res = "Ok" THEN "open" ELSE "failed"
           /\ rd' = o.rd
           /\ last' = [op |-> "new", arg |-> 0, res |-> o.res, n |-> 0, before |-> 0]
    /\ UNCHANGED <<input, out, hist>>
    /\ UNCHANGED codecVars

\* Read::read(&mut buf) with buf of n bytes; the caller appends the bytes it got
DoRead(n) ==
    /\ status = "open"
    /\ Len(out) < MaxOut
    /\ \E o \in ReadOutcomes(rd, n) :
        /\ rd' = o.rd
        /\ out' = IF o.res = "Ok" THEN out \o o.data ELSE out
        /\ status' = IF o.res = "panic" THEN "crashed" ELSE "open"
        /\ last' = [op |-> "read", arg |-> n, res |-> o.res, n |-> o.n, before |-> Len(out)]
        /\ hist' = [hist EXCEPT
                      !.emptyBuf = @ \/ n = 0,
                      !.zeros = IF n > 0 /\ o.res = "Ok" /\ o.n = 0 THEN Sat(@ + 1) ELSE @,
                      !.errs = @ \/ o.res # "Ok"]
    /\ UNCHANGED input
    /\ UNCHANGED codecVars

\* Read::read_to_end(&mut out)
DoReadToEnd ==
    /\ status = "open"
    /\ \E o \in ReadToEndOutcomes(rd, out) :
        /\ rd' = o.rd
        /\ out' = o.buf
        /\ status' = IF o.res = "panic" THEN "crashed" ELSE "open"
        /\ last' = [op |-> "read_to_end", arg |-> 0, res |-> o.res, n |-> o.n,
                    before |-> Len(out)]
        /\ hist' = [hist EXCEPT !.rte = Sat(@ + 1), !.errs = @ \/ o.res # "Ok"]
    /\ UNCHANGED input
    /\ UNCHANGED codecVars

Next ==
    \/ DoNew
    \/ \E n \in 0..MaxBuf : DoRead(n)
    \/ DoReadToEnd

Spec == Init /\ [][Next]_vars

----------------------------------------------------------------------------
(* The codec's specification: values are encoded back to back into one     *)
(* writer and decoded back, in order, from the bytes written.              *)

Fill(n, b) == [i \in 1..n |-> b]

\* the longest string encode accepts, and the shortest it refuses
LongString == Fill(I16_MAX, 97)
TooLongString == Fill(I16_MAX + 1, 98)

I32_MIN == -I32_MAX - 1

\* the values xs, each of type T
Vals(T, xs) == [i \in 1..Len(xs) |-> [t |-> T, v |-> xs[i]]]

\* the values the model encodes
CodecValues ==
    Vals(<<"i8">>, <<-128, 127>>)
    \o Vals(<<"i16">>, <<-32768, 258>>)
    \o Vals(<<"i32">>, <<I32_MIN, 16909060, I32_MAX>>)
    \o Vals(<<"i64">>, << <<-1, -1>>, <<I32_MIN, 0>>, <<1, -2>> >>)
    \o Vals(<<"str">>, << <<>>, <<97>>, <<104, 105, 33>>, LongString, TooLongString >>)
    \o Vals(<<"bytes">>, << <<>>, <<255, 1, 128>> >>)
    \o Vals(<<"vec", "i16">>, << <<>>, <<1, -1, 513>> >>)
    \o Vals(<<"vec", "str">>,
            << << <<97>>, <<>>, <<98, 99>> >>, << <<97>>, TooLongString, <<98>> >> >>)
    \o Vals(<<"vec", "bytes">>, << << <<1, 2>>, <<>>, <<3>> >> >>)
    \o Vals(<<"vec", "vec", "i8">>, << << <<1>>, <<>>, <<-2, 3>> >> >>)
    \o Vals(<<"vec", "vec", "str">>,
            << << << <<97>> >>, << <<98>>, TooLongString >>, << <<99>> >> >> >>)

InitCodec ==
    /\ input = <<>>
    /\ status = "init"
    /\ rd = NoReader
    /\ out = <<>>
    /\ last = Idle
    /\ hist = NoHist
    /\ CodecIdle

\* the codec is used until a call fails, or encode_nolen or a decode other
\* than the next value's decode_new has been called
CodecGoing == clast.op \in { "none", "encode", "decode_new" } /\ clast.res = "Ok"

\* CodecValues[i].encode(&mut wbuf)
DoEncode(i) ==
    /\ CodecGoing
    /\ Len(encoded) < MaxVals
    /\ Len(wbuf) < MaxWritten
    /\ LET x == CodecValues[i]
           r == Encode(x.t, x.v, wbuf)
       IN  /\ wbuf' = r.buf
           /\ encoded' = IF r.res = "Ok"
                         THEN Append(encoded, [i |-> i, end |-> Len(r.buf)])
                         ELSE encoded
           /\ clast' = [op |-> "encode", i |-> i, res |-> r.res, before |-> Len(wbuf)]
    /\ UNCHANGED <<rpos, decoded>>
    /\ UNCHANGED readerVars

\* CodecValues[i].encode_nolen(&mut wbuf)
DoEncodeNolen(i) ==
    /\ CodecGoing
    /\ Len(encoded) < MaxVals
    /\ Len(wbuf) < MaxWritten
    /\ LET x == CodecValues[i]
           r == EncodeNolen(x.t, x.v, wbuf)
       IN  /\ wbuf' = r.buf
           /\ clast' = [op |-> "encode_nolen", i |-> i, res |-> r.res, before |-> Len(wbuf)]
    /\ UNCHANGED <<encoded, rpos, decoded>>
    /\ UNCHANGED readerVars

\* T::decode_new(&mut reader), T the type of the next value that was encoded
DoDecodeNew ==
    /\ CodecGoing
    /\ Len(decoded) < Len(encoded)
    /\ LET i == encoded[Len(decoded) + 1].i
           r == DecodeNew(CodecValues[i].t, wbuf, rpos)
       IN  /\ rpos' = r.pos
           /\ decoded' = Append(decoded, [res |-> r.res, v |-> r.val, pos |-> r.pos])
           /\ clast' = [op |-> "decode_new", i |-> i, res |-> r.res, before |-> rpos]
    /\ UNCHANGED <<wbuf, encoded>>
    /\ UNCHANGED readerVars

\* the targets a caller may hand to decode: the default value of the type or
\* one with contents
Priors(T) ==
    CASE Head(T) \in { "i8", "i16", "i32" } -> { 0, 5 }
      [] Head(T) = "i64" -> { <<0, 0>>, <<3, 4>> }
      [] Head(T) = "str" -> { <<>>, <<120>> }
      [] Head(T) = "bytes" -> { <<>>, <<7>> }
      [] Head(T) = "vec" -> { <<>>, <<Default(Tail(T))>> }

\* target.decode(&mut reader), target a value of the type of the next value
\* that was encoded
DoDecode ==
    /\ CodecGoing
    /\ Len(decoded) < Len(encoded)
    /\ LET i == encoded[Len(decoded) + 1].i
           T == CodecValues[i].t
       IN  \E p \in Priors(T) :
             LET r == Decode(T, p, wbuf, rpos)
             IN  /\ rpos' = r.pos
                 /\ clast' = [op |-> "decode", i |-> i, res |-> r.res, before |-> rpos,
                              fresh |-> (p = Default(T))]
    /\ UNCHANGED <<wbuf, encoded, decoded>>
    /\ UNCHANGED readerVars

\* the sequence and byte sequence types a reader's bytes are decoded as
SeqTypes == { <<"bytes">>, <<"vec", "i16">>, <<"vec", "str">>, <<"vec", "vec", "i8">> }

\* T::decode_new(&mut reader) for a sequence type T, whatever was written: the
\* count it reads is the next four bytes of the reader
DoDecodeNewAs(T) ==
    /\ CodecGoing
    /\ Len(wbuf) < MaxWritten
    /\ LET r == DecodeNew(T, wbuf, rpos)
       IN  /\ rpos' = r.pos
           /\ clast' = [op |-> "decode_new_as", i |-> 0, res |-> r.res, before |-> rpos,
                        t |-> T, val |-> r.val]
    /\ UNCHANGED <<wbuf, encoded, decoded>>
    /\ UNCHANGED readerVars

NextCodec ==
    \/ \E i \in DOMAIN CodecValues : DoEncode(i)
    \/ \E i \in DOMAIN CodecValues : DoEncodeNolen(i)
    \/ DoDecodeNew
    \/ DoDecode
    \/ \E T \in SeqTypes : DoDecodeNewAs(T)

SpecCodec == InitCodec /\ [][NextCodec]_vars

----------------------------------------------------------------------------
(* What a stream is, stated on the bytes alone *)

Errors == { "UnexpectedEOF", "InvalidInputSnappy" }

HeaderOk(s) ==
    /\ Len(s) >= 16
    /\ SubSeq(s, 1, 8) = MAGIC
    /\ SubSeq(s, 9, 12) = <<0, 0, 0, 1>>
    /\ SubSeq(s, 13, 16) = <<0, 0, 0, 1>>

\* the body is zero or more chunks, each a strictly positive length prefix and a
\* payload of that length that decompresses
RECURSIVE WellFormedBody(_)
WellFormedBody(b) ==
    \/ b = <<>>
    \/ /\ Len(b) >= 4
       /\ ReadI32(b) > 0
       /\ ReadI32(b) <= Len(b) - 4
       /\ SnappyDecode(SubSeq(b, 5, 4 + ReadI32(b))).ok
       /\ WellFormedBody(Drop(b, 4 + ReadI32(b)))

\* the decompressed bytes of each chunk of a well-formed body, in order
RECURSIVE ChunkOutputs(_)
ChunkOutputs(b) ==
    IF b = <<>> THEN <<>>
    ELSE <<SnappyDecode(SubSeq(b, 5, 4 + ReadI32(b))).out>>
            \o ChunkOutputs(Drop(b, 4 + ReadI32(b)))

WellFormed == HeaderOk(input) /\ WellFormedBody(Drop(input, 16))
Expected == Concat(ChunkOutputs(Drop(input, 16)))

\* no compressed byte is left and the decompressed buffer is fully consumed
Exhausted ==
    /\ status = "open"
    /\ rd.compressed_data = <<>>
    /\ rd.uncompressed_pos >= Len(rd.uncompressed_chunk)

----------------------------------------------------------------------------
(* Claims about the reader and the header *)

\* C1: on a well-formed stream, a fresh reader drained by read calls with non-empty
\* buffers, stopping at the first call that returns 0, has delivered exactly the
\* concatenation of the chunks' decompressed bytes, without error.
C1_DrainDeliversAll ==
    (/\ WellFormed
     /\ last.op = "read"
     /\ ~hist.emptyBuf
     /\ hist.rte = 0)
    => /\ last.res = "Ok"
       /\ (last.n = 0 /\ hist.zeros = 1) => out = Expected

\* C2: on a well-formed stream, after any sequence of reads, read_to_end succeeds,
\* the bytes the reads delivered followed by the bytes it appends are the
\* concatenation of the chunks' decompressed bytes, and it returns the number of
\* bytes it appended.
C2_ReadToEndCompletes ==
    (WellFormed /\ last.op = "read_to_end" /\ hist.rte = 1)
    => /\ last.res = "Ok"
       /\ ~hist.errs
       /\ out = Expected
       /\ last.n = Len(out) - last.before

\* read_to_end after reads that stopped inside a chunk, with chunks left to read
C2_Witness ==
    /\ WellFormed
    /\ last.op = "read_to_end"
    /\ hist.rte = 1
    /\ last.before = 1
    /\ last.n >= 5
    /\ out = Expected

\* C3: once the reader is exhausted, every further read or read_to_end returns 0
\* without error and changes neither the reader nor the accumulator.
C3_ExhaustedIsTerminal ==
    [][Exhausted => /\ last'.res = "Ok"
                    /\ last'.n = 0
                    /\ rd' = rd
                    /\ out' = out]_vars

\* exhausted, after bytes were delivered and both operations were called again
C3_Witness ==
    /\ Exhausted
    /\ out # <<>>
    /\ hist.rte = 2
    /\ hist.zeros = 2
    /\ last.res = "Ok"
    /\ last.n = 0

\* the compressed view begins at a strictly positive prefix that declares more
\* bytes than follow it, and the next call reaches it
AtTruncatedChunk ==
    /\ status = "open"
    /\ rd.uncompressed_pos >= Len(rd.uncompressed_chunk)
    /\ Len(rd.compressed_data) >= 4
    /\ ReadI32(rd.compressed_data) > 0
    /\ ReadI32(rd.compressed_data) > Len(rd.compressed_data) - 4

\* C4: a chunk-length prefix that is strictly positive but declares more payload
\* bytes than remain makes read and read_to_end return UnexpectedEOF.
C4_TruncatedChunkIsEOF ==
    [][AtTruncatedChunk => last'.res = "UnexpectedEOF"]_vars

\* C5: header validation of an input shorter than 16 bytes fails with
\* UnexpectedEOF, whatever its bytes are.
C5_ShortInputIsEOF ==
    (last.op = "new" /\ Len(input) < 16) => last.res = "UnexpectedEOF"

\* a header field that is present in full and does not hold its required value
WrongFieldPresent(s) ==
    \/ Len(s) >= 8 /\ SubSeq(s, 1, 8) # MAGIC
    \/ Len(s) >= 12 /\ SubSeq(s, 9, 12) # <<0, 0, 0, 1>>

\* C5, amended: header validation of an input shorter than 16 bytes fails, with
\* InvalidInput when the magic or the version is present in full and wrong, with
\* UnexpectedEOF otherwise; no reader is created.
C5_ShortInputFails ==
    (last.op = "new" /\ Len(input) < 16)
    => /\ status = "failed"
       /\ rd = NoReader
       /\ last.res = IF WrongFieldPresent(input) THEN "InvalidInputSnappy"
                     ELSE "UnexpectedEOF"

\* a short input with a wrong magic, refused as invalid
C5_Witness ==
    /\ last.op = "new"
    /\ Len(input) \in 8..15
    /\ SubSeq(input, 1, 8) # MAGIC
    /\ last.res = "InvalidInputSnappy"

\* C6: for an input of at least 16 bytes, header validation succeeds exactly when
\* the magic, the version (1) and the compatibility (1) are right, and the reader
\* then holds the unmodified bytes after the 16th; otherwise it fails with
\* InvalidInput and no reader is created.
C6_HeaderDecides ==
    (last.op = "new" /\ Len(input) >= 16)
    => IF HeaderOk(input)
       THEN /\ last.res = "Ok"
            /\ status = "open"
            /\ rd = [compressed_data |-> Drop(input, 16),
                     uncompressed_pos |-> 0,
                     uncompressed_chunk |-> <<>>]
       ELSE /\ last.res = "InvalidInputSnappy"
            /\ status = "failed"
            /\ rd = NoReader

\* the header of test_validate_stream: accepted, the byte 0x56 remains
C6_Witness ==
    /\ last.op = "new"
    /\ input = ValidHeader \o <<86>>
    /\ status = "open"
    /\ rd.compressed_data = <<86>>

\* C7: when read or read_to_end returns an error, the reader's state is what it
\* was before the call.
C7_FailsAtomically ==
    [][(last'.op \in {"read", "read_to_end"} /\ last'.res \in Errors) => rd' = rd]_vars

----------------------------------------------------------------------------
(* Claims about the codec *)

\* the value of the last codec call
LastValue == CodecValues[clast.i]

\* a value encode is specified for: every string in it has at most 32767 bytes
RECURSIVE Supported(_, _)
Supported(T, v) ==
    CASE Head(T) = "str" -> Len(v) <= 32767
      [] Head(T) = "vec" -> \A k \in 1..Len(v) : Supported(Tail(T), v[k])
      [] OTHER -> TRUE

\* C8: for every value of a supported category encode succeeds, and decode_new on
\* the emitted bytes returns the value and consumes exactly those bytes, so that
\* values encoded back to back are decoded back in the same order.
C8_RoundTrip ==
    /\ (clast.op = "encode" /\ Supported(LastValue.t, LastValue.v)) => clast.res = "Ok"
    /\ \A k \in 1..Len(decoded) :
        /\ decoded[k].res = "Ok"
        /\ decoded[k].v = CodecValues[encoded[k].i].v
        /\ decoded[k].pos = encoded[k].end

\* a nested sequence and then a string of 32767 bytes, encoded back to back and
\* both decoded
C8_Witness ==
    /\ Len(decoded) = 2
    /\ CodecValues[encoded[1].i].t = <<"vec", "vec", "i8">>
    /\ Len(decoded[1].v) = 3
    /\ CodecValues[encoded[2].i].t = <<"str">>
    /\ decoded[2].v = LongString
    /\ rpos = Len(wbuf)

\* the fixed-width big-endian length or count a category puts first
LengthPrefix(T, v) ==
    CASE Head(T) = "str" -> << Len(v) \div 256, Len(v) % 256 >>
      [] Head(T) \in {"vec", "bytes"} -> WriteI32(Len(v))
      [] OTHER -> <<>>

\* C9: for a string, a sequence or a byte sequence, the bytes encode emits are the
\* length or count prefix followed by exactly the bytes encode_nolen emits; for a
\* fixed-width integer encode_nolen emits the bytes encode emits.
C9_NolenOmitsLength ==
    (clast.op = "encode_nolen" /\ clast.res = "Ok")
    => Encode(LastValue.t, LastValue.v, <<>>).buf
         = LengthPrefix(LastValue.t, LastValue.v) \o Drop(wbuf, clast.before)

\* C10: when encode fails with CodecError, nothing has been appended to the writer.
C10_EncodeFailsAtomically ==
    (clast.op = "encode" /\ clast.res = "CodecError") => Len(wbuf) = clast.before

\* what a failing encode has written: the count of each sequence it entered and
\* the whole encoding of each element before the first string that is too long
RECURSIVE WrittenBeforeFailure(_, _)
RECURSIVE ElemsBeforeFailure(_, _)
ElemsBeforeFailure(E, vs) ==
    IF vs = <<>> THEN <<>>
    ELSE IF Supported(E, Head(vs))
    THEN Encode(E, Head(vs), <<>>).buf \o ElemsBeforeFailure(E, Tail(vs))
    ELSE WrittenBeforeFailure(E, Head(vs))
WrittenBeforeFailure(T, v) ==
    IF Head(T) = "vec" THEN WriteI32(Len(v)) \o ElemsBeforeFailure(Tail(T), v) ELSE <<>>

\* C10, amended: when encode of a string longer than 32767 bytes fails with
\* CodecError, nothing has been appended to the writer; when encode of a sequence
\* that contains such a string fails, the writer has received the count of every
\* sequence entered and the encodings of the elements before the first such string.
C10_EncodeFailureOutput ==
    (clast.op = "encode" /\ clast.res = "CodecError")
    => /\ ~Supported(LastValue.t, LastValue.v)
       /\ Drop(wbuf, clast.before) = WrittenBeforeFailure(LastValue.t, LastValue.v)
       /\ LastValue.t = <<"str">> => Len(wbuf) = clast.before

\* a sequence of strings whose second string is too long: encode failed after it
\* wrote the count and the first string
C10_Witness ==
    /\ clast.op = "encode"
    /\ clast.res = "CodecError"
    /\ LastValue.t = <<"vec", "str">>
    /\ Drop(wbuf, clast.before) = <<0, 0, 0, 3, 0, 1, 97>>

\* the value the last decode was given the encoding of
DecodedInto == encoded[Len(decoded) + 1]

\* C11: decode on a target with any prior contents, on a reader holding the
\* encoding of a value, succeeds and consumes exactly the bytes of that
\* encoding, for integers, strings, sequences and byte sequences.
C11_DecodeIntoTarget ==
    clast.op = "decode" => /\ clast.res = "Ok"
                           /\ rpos = DecodedInto.end

\* the reader held a whole 32-bit count where the last decode_new began
HasCount == Len(wbuf) >= clast.before + 4

DeclaredCount == ReadI32(SubSeq(wbuf, clast.before + 1, clast.before + 4))

\* C12: decode_new of a sequence or a byte sequence whose declared count is
\* zero or negative returns an empty value without error and consumes the
\* four prefix bytes only.
C12_NonPositiveCountIsEmpty ==
    (clast.op = "decode_new_as" /\ HasCount /\ DeclaredCount <= 0)
        => /\ clast.res = "Ok"
           /\ clast.val = <<>>
           /\ rpos = clast.before + 4

\* a negative count with bytes after it, which stay unread
C12_Witness ==
    /\ clast.op = "decode_new_as"
    /\ HasCount
    /\ DeclaredCount < 0
    /\ clast.t = <<"bytes">>
    /\ clast.res = "Ok"
    /\ Len(wbuf) > rpos

\* the bytes after the header, and how many of them the view has left behind
Body == Drop(input, 16)

ViewOffset == Len(Body) - Len(rd.compressed_data)

\* the offsets in a body at which a chunk-length prefix begins: the start, and
\* the end of each chunk whose prefix is positive and whose payload is there
RECURSIVE PrefixOffsets(_)
PrefixOffsets(b) ==
    IF Len(b) < 4 THEN { 0 }
    ELSE LET n == ReadI32(Take(b, 4))
         IN  IF n <= 0 \/ n > Len(b) - 4 THEN { 0 }
             ELSE { 0 } \cup { 4 + n + o : o \in PrefixOffsets(Drop(b, 4 + n)) }

\* C13: after any calls, failed ones included, the compressed view is empty
\* or begins at the first byte of a chunk-length prefix of the stream.
C13_ViewAtPrefix ==
    status = "open" => \/ rd.compressed_data = <<>>
                       \/ ViewOffset \in PrefixOffsets(Body)

\* C14: after any calls, failed ones included, the cursor is at most the
\* length of the decompressed-chunk buffer.
C14_CursorInBuffer ==
    status \in { "open", "crashed" } => rd.uncompressed_pos <= Len(rd.uncompressed_chunk)

\* a buffer read to its end, by short reads, after a call has failed
C14_Witness ==
    /\ status = "open"
    /\ hist.errs
    /\ last.op = "read"
    /\ last.n > 0
    /\ last.n < last.arg
    /\ rd.uncompressed_pos = Len(rd.uncompressed_chunk)

\* the leading well-formed chunks of a body, as their decompressed bytes, and
\* what follows them: the end of the stream, a prefix of fewer than 4 bytes, a
\* non-positive length, a length beyond the bytes left, or a payload that does
\* not decompress
RECURSIVE Scan(_)
Scan(b) ==
    IF b = <<>> THEN [outs |-> <<>>, kind |-> "end"]
    ELSE IF Len(b) < 4 THEN [outs |-> <<>>, kind |-> "short"]
    ELSE LET n == ReadI32(Take(b, 4))
         IN  IF n <= 0 THEN [outs |-> <<>>, kind |-> "nonpos"]
             ELSE IF n > Len(b) - 4 THEN [outs |-> <<>>, kind |-> "trunc"]
             ELSE LET d == SnappyDecode(SubSeq(b, 5, 4 + n))
                      t == Scan(Drop(b, 4 + n))
                  IN  IF d.ok THEN [outs |-> <<d.out>> \o t.outs, kind |-> t.kind]
                      ELSE [outs |-> <<>>, kind |-> "bad"]

\* the decompressed bytes of the chunks before the malformed one
Leading == Concat(Scan(Body).outs)

\* the error the malformed chunk is to be reported with
MalformedError ==
    IF Scan(Body).kind = "short" THEN "UnexpectedEOF" ELSE "InvalidInputSnappy"

\* a reader over a stream with a malformed chunk, used by read calls only, none
\* of which has failed yet
BeforeFirstError ==
    /\ status = "open"
    /\ HeaderOk(input)
    /\ Scan(Body).kind \in { "short", "nonpos", "bad" }
    /\ hist.rte = 0
    /\ ~hist.errs

\* C15: validation is lazy and per chunk. With k well-formed chunks before a
\* malformed one, reads deliver the bytes of chunks 1..k without error, and
\* the first read issued once those bytes are consumed returns the error:
\* UnexpectedEOF for a short prefix, InvalidInput for a non-positive length or
\* a payload that does not decompress.
C15_LazyValidation ==
    [][(BeforeFirstError /\ last'.op = "read")
        => /\ \/ last'.res = "Ok" /\ out' \in Prefixes(Leading)
              \/ last'.res = MalformedError /\ out = Leading
           /\ out = Leading => last'.res = MalformedError]_vars

\* the bytes of the decompressed buffer not yet consumed
Unconsumed == Drop(rd.uncompressed_chunk, rd.uncompressed_pos)

\* C16: a read made while the buffer holds unconsumed bytes returns
\* n = min(requested, unconsumed), delivers the n bytes at the cursor, advances
\* the cursor by n and leaves the compressed view and the buffer unchanged.
C16_BufferedRead ==
    [][(status = "open" /\ rd.uncompressed_pos < Len(rd.uncompressed_chunk)
            /\ last'.op = "read")
        => /\ last'.res = "Ok"
           /\ last'.n = Min(last'.arg, Len(Unconsumed))
           /\ out' = out \o Take(Unconsumed, last'.n)
           /\ rd' = [rd EXCEPT !.uncompressed_pos = @ + last'.n]]_vars

\* a read that found part of a chunk in the buffer and returned less than was
\* asked for, while chunks remain
C16_Witness ==
    /\ status = "open"
    /\ last.op = "read"
    /\ last.res = "Ok"
    /\ 0 < last.n
    /\ last.n < last.arg
    /\ rd.uncompressed_pos > last.n
    /\ rd.compressed_data # <<>>

IsSuffix(s, t) == Len(s) <= Len(t) /\ s = Drop(t, Len(t) - Len(s))

\* C17: after any operations the compressed view is a suffix of the bytes
\* that follow the 16-byte header, and no operation makes it longer; the
\* header is left behind at construction and never read again.
C17_ViewShrinks ==
    [][status' \in { "open", "crashed" }
        => /\ IsSuffix(rd'.compressed_data, Body')
           /\ status = "open" => Len(rd'.compressed_data) <= Len(rd.compressed_data)]_vars

\* part of the body consumed and part left, after a call that failed
C17_Witness ==
    /\ status = "open"
    /\ hist.errs
    /\ rd.compressed_data # <<>>
    /\ Len(rd.compressed_data) < Len(Body)
    /\ out # <<>>

\* what is left for a reader to deliver: the compressed bytes of its view, then
\* the unconsumed bytes of its buffer
Measure(r) == << Len(r.compressed_data), Len(r.uncompressed_chunk) - r.uncompressed_pos >>

LexLess(a, b) == a[1] < b[1] \/ (a[1] = b[1] /\ a[2] < b[2])

\* C18: on every stream, reads with non-empty buffers reach a call that
\* returns 0 or an error, and every read_to_end finishes. Every call returns;
\* a read that returns neither 0 nor an error leaves strictly less to deliver,
\* and a read_to_end that succeeds has consumed the whole view, each chunk
\* taking its prefix and its payload from it.
C18_CallsTerminate ==
    [][(status = "open" /\ last'.op \in { "read", "read_to_end" })
        => /\ status' = "open"
           /\ (last'.op = "read" /\ last'.arg > 0)
                => \/ last'.res \in Errors
                   \/ last'.res = "Ok" /\ last'.n = 0
                   \/ last'.res = "Ok" /\ LexLess(Measure(rd'), Measure(rd))
           /\ last'.op = "read_to_end"
                => \/ last'.res \in Errors
                   \/ last'.res = "Ok" /\ rd'.compressed_data = <<>>]_vars

\* C19: across any read calls on one reader, failed ones included, the bytes
\* returned by the successful reads are, in order, a prefix of the stream's
\* decompressed chunks: none is delivered twice and none is skipped.
C19_DeliversPrefix ==
    (status \in { "open", "crashed" } /\ hist.rte = 0) => out \in Prefixes(Leading)

\* C20: a read with a non-empty buffer returns 0 only when the reader is
\* exhausted: the compressed view is empty and the buffer is fully consumed.
C20_ZeroMeansExhausted ==
    [][(status = "open" /\ last'.op = "read" /\ last'.arg > 0
            /\ last'.res = "Ok" /\ last'.n = 0)
        => Exhausted]_vars

====
